---- MODULE Spec2Model ----
\* heel-gun: the request pipeline of main.rs (test_target_requests and the
\* failure recorder of main), the outcome classifier of outcome.rs, and the
\* body-capture tasks main spawns on the runtime's executor.
EXTENDS Integers, Sequences, FiniteSets, TLC

\* ---------------------------------------------------------------- bounds
MaxTargets == 2
MaxN == 2
MaxChunks == 1
MaxBodies == 2

\* ------------------------------------------------------- inputs and values
\* The methods of the targets of a run (target.rs Method, as HyperMethod prints).
Methods == {"GET", "POST"}

\* The base URL of the run (HeelGun.url).
BaseUrl == "http://x"

\* What TestTarget::sample can return for a trial: a parsed URI, given by its
\* path-and-query, or the InvalidUri error of the final parse().
PathQueries == {"/a?q"}
SampleResults == PathQueries \cup {"InvalidUri"}

\* Request::builder()...body(): Ok(req) or Err(HttpError).
BuildResults == {"ok", "err"}

\* The hyper errors client.request can end with; is_connect tells them apart.
HyperErrors ==
  { [connect |-> TRUE,  msg |-> "error trying to connect"],
    [connect |-> FALSE, msg |-> "parsed HTTP message from remote is incomplete"] }

\* (variant: no error is taken for a connection error)
is_connect_never(err) == FALSE
is_connect(err) == err.connect

\* The status codes the server answers with in the pipeline runs.
Statuses == {200, 503}

\* Every status code a response can carry: a StatusCode of the http crate
\* hyper 0.12 builds on holds 100..=599 (a status line with any other code is
\* a parse error of client.request, one of the HyperErrors that is no
\* connection error).
StatusCodes == 100..599

\* A response body is a stream of chunks; chunk c of a body is the number c.
Bodies == { [c \in 1..len |-> c] : len \in 0..MaxChunks }

\* What csv::Writer::write_record can return.
WriteResults == {"ok", "fail"}

NoErr == [connect |-> FALSE, msg |-> ""]
NoUri == [base |-> "", pq |-> ""]
NoOutcome == [method |-> "", uri |-> NoUri, kind |-> "none", status |-> 0,
              body |-> << >>, err |-> NoErr]

\* Uri: the base URL followed by the path-and-query; Display prints both.
Uri(pq) == [base |-> BaseUrl, pq |-> pq]
UriToString(uri) == uri.base \o uri.pq
path_and_query(uri) == uri.pq

\* http::StatusCode::is_server_error, as outcome.rs and main.rs call it:
\* the code is in 500..=599.
\* (variant: the lower bound is exclusive)
is_server_error_gt(status) == 600 > status /\ status > 500
is_server_error(status) == 600 > status /\ status >= 500

\* ServerOutcome::with_status, with the response body main.rs passes to it and
\* reads back from OutcomeKind::BadError.
with_status(method, uri, status, body) ==
  [method |-> method, uri |-> uri,
   kind |-> IF is_server_error(status) THEN "BadError" ELSE "Good",
   status |-> status, body |-> body, err |-> NoErr]

\* ServerOutcome::bad_http
bad_http(method, uri, err) ==
  [method |-> method, uri |-> uri, kind |-> "BadHttp",
   status |-> 0, body |-> << >>, err |-> err]

\* StatusCode's to_string: the decimal digits of the code.
Digit(d) == CASE d = 0 -> "0" [] d = 1 -> "1" [] d = 2 -> "2" [] d = 3 -> "3"
              [] d = 4 -> "4" [] d = 5 -> "5" [] d = 6 -> "6" [] d = 7 -> "7"
              [] d = 8 -> "8" [] d = 9 -> "9"
StatusToString(status) ==
  Digit(status \div 100) \o Digit((status \div 10) % 10) \o Digit(status % 10)

\* The header main writes to failures.csv before the pipeline starts.
Header == <<"method", "uri", "reason">>

\* ------------------------------------------------------------------ state
VARIABLES
  targets,   \* Config.targets: the methods of the configured targets, in order
  n,         \* HeelGun.n: trials per target
  pc,        \* where the pipeline future of block_on stands
  ti,        \* the target the flattened stream is at (1-based)
  i,         \* the trial index iter_ok(0..niter) is at, within target ti
  uri,       \* the URI of the trial under way
  outcome,   \* the ServerOutcome handed to the failure recorder
  err,       \* the Error the stream ended with ("none" while there is none)
  csv,       \* failures.csv: the records written, header first
  tasks,     \* the body-capture futures spawned on the executor, in spawn order
  files,     \* the body files under outdir: path -> the chunks written
  reported,  \* what error! has logged
  exit,      \* whether the process has exited, and its exit status
  trials,    \* history: one record per trial started
  consumed,  \* history: one record per outcome the recorder received
  rowTrial,  \* history: for each row of csv after the header, its trial
  cls,       \* the classifier's last input and result (SpecClassify)
  call       \* the last pure-function call: its arguments and its result

vars == <<targets, n, pc, ti, i, uri, outcome, err, csv, tasks, files,
          reported, exit, trials, consumed, rowTrial, cls, call>>

pipeVars == <<pc, ti, i, uri, outcome, err, csv, trials, consumed, rowTrial>>

Running == [done |-> FALSE, status |-> 0]
Exited(status) == [done |-> TRUE, status |-> status]

NoCls == [status |-> 0, kind |-> "none"]
NoCall == [op |-> "none"]

\* The body files a run can create: outdir/<METHOD>/<path-and-query>.
Paths == Methods \X PathQueries
NoFile == [exists |-> FALSE, data |-> << >>]

\* The state when block_on starts: configuration loaded, outdir and
\* failures.csv created, the header written (main.rs 186-204).
Init ==
  /\ targets \in UNION { [1..len -> Methods] : len \in 0..MaxTargets }
  /\ n \in 0..MaxN
  /\ pc = "poll"
  /\ ti = 1
  /\ i = 0
  /\ uri = NoUri
  /\ outcome = NoOutcome
  /\ err = "none"
  /\ csv = <<Header>>
  /\ tasks = << >>
  /\ files = [p \in Paths |-> NoFile]
  /\ reported = {}
  /\ exit = Running
  /\ trials = << >>
  /\ consumed = << >>
  /\ rowTrial = << >>
  /\ cls = NoCls
  /\ call = NoCall

\* ------------------------------------------------- the request pipeline
\* The trial under way is the last record of trials.
SetLast(seq, stage, res) ==
  [seq EXCEPT ![Len(seq)] = [@ EXCEPT !.stage = stage, !.res = res]]

\* for_each on an Err item of the stream: it resolves with the error, and no
\* further item is polled (main.rs 256).
\* (variant: the Err item is dropped and the next item is polled)
for_each_err_skip(e) ==
  /\ pc' = "poll"
  /\ err' = err
for_each_err(e) ==
  /\ pc' = "failed"
  /\ err' = e

\* for_each on an Ok item: the closure returns ok(()), the next item is polled.
for_each_ok ==
  /\ pc' = "poll"
  /\ err' = err

\* iter_ok(0..niter): whether the range has an index left to yield.
\* (variant: the range is 0..=niter)
range_has_next_inclusive == i <= n
range_has_next == i < n

\* iter_ok(targets)...flatten(): all targets are through, the stream ends and
\* for_each resolves Ok.
StreamEnd ==
  /\ ~exit.done
  /\ pc = "poll"
  /\ ti > Len(targets)
  /\ pc' = "finished"
  /\ UNCHANGED <<ti, i, uri, outcome, err, csv, trials, consumed, rowTrial>>
  /\ UNCHANGED <<targets, n, tasks, files, reported, exit, cls, call>>

\* flatten(): iter_ok(0..niter) of target ti has ended, test_target_requests
\* of the next target is polled.
NextTarget ==
  /\ ~exit.done
  /\ pc = "poll"
  /\ ti <= Len(targets)
  /\ ~range_has_next
  /\ ti' = ti + 1
  /\ i' = 0
  /\ UNCHANGED <<pc, uri, outcome, err, csv, trials, consumed, rowTrial>>
  /\ UNCHANGED <<targets, n, tasks, files, reported, exit, cls, call>>

\* The first and_then of test_target_requests: sample the request URI of
\* trial i of target ti.
Sample ==
  /\ ~exit.done
  /\ pc = "poll"
  /\ ti <= Len(targets)
  /\ range_has_next
  /\ i' = i + 1
  /\ \E r \in SampleResults :
       IF r = "InvalidUri"
       THEN /\ trials' = Append(trials, [t |-> ti, i |-> i, uri |-> NoUri,
                                          stage |-> "sample", res |-> "InvalidRequest"])
            /\ for_each_err("InvalidRequest")
            /\ UNCHANGED uri
       ELSE /\ trials' = Append(trials, [t |-> ti, i |-> i, uri |-> Uri(r),
                                          stage |-> "sample", res |-> "pending"])
            /\ uri' = Uri(r)
            /\ pc' = "build"
            /\ UNCHANGED err
  /\ UNCHANGED <<ti, outcome, csv, consumed, rowTrial>>
  /\ UNCHANGED <<targets, n, tasks, files, reported, exit, cls, call>>

\* The second and_then: build the HTTP request.
Build ==
  /\ ~exit.done
  /\ pc = "build"
  /\ \E r \in BuildResults :
       IF r = "err"
       THEN /\ trials' = SetLast(trials, "build", "Http")
            /\ for_each_err("Http")
       ELSE /\ trials' = SetLast(trials, "build", "pending")
            /\ pc' = "send"
            /\ UNCHANGED err
  /\ UNCHANGED <<ti, i, uri, outcome, csv, consumed, rowTrial>>
  /\ UNCHANGED <<targets, n, tasks, files, reported, exit, cls, call>>

\* The third and_then: send the request; a response is classified by its
\* status, a hyper error by is_connect.
SendResponse ==
  /\ ~exit.done
  /\ pc = "send"
  /\ \E status \in Statuses, body \in Bodies :
       LET o == with_status(targets[ti], uri, status, body) IN
       \* the server answers with an error at most MaxBodies times in a run;
       \* the body of any other response is dropped unread, taken empty here
       /\ o.kind = "BadError" => Len(tasks) < MaxBodies
       /\ o.kind = "Good" => body = << >>
       /\ outcome' = o
       /\ trials' = SetLast(trials, "send", o.kind)
  /\ pc' = "record"
  /\ UNCHANGED <<ti, i, uri, err, csv, consumed, rowTrial>>
  /\ UNCHANGED <<targets, n, tasks, files, reported, exit, cls, call>>

SendError ==
  /\ ~exit.done
  /\ pc = "send"
  /\ \E e \in HyperErrors :
       IF is_connect(e)
       THEN /\ trials' = SetLast(trials, "send", "HttpStream")
            /\ for_each_err("HttpStream")
            /\ UNCHANGED outcome
       ELSE /\ outcome' = bad_http(targets[ti], uri, e)
            /\ trials' = SetLast(trials, "send", "BadHttp")
            /\ pc' = "record"
            /\ UNCHANGED err
  /\ UNCHANGED <<ti, i, uri, csv, consumed, rowTrial>>
  /\ UNCHANGED <<targets, n, tasks, files, reported, exit, cls, call>>

\* ------------------------------------------------- the failure recorder
\* The records the and_then closure of main writes for an outcome: one
\* {method, uri, reason} for BadError and for BadHttp, none for Good.
RecordOf_all(o) ==
  << <<o.method, UriToString(o.uri), StatusToString(o.status)>> >>
\* (variant: the three fields are written as three records of one field)
RecordOf_by_field(o) ==
  CASE o.kind = "BadError" ->
         << <<o.method>>, <<UriToString(o.uri)>>, <<StatusToString(o.status)>> >>
    [] o.kind = "BadHttp" ->
         << <<o.method>>, <<UriToString(o.uri)>>, <<o.err.msg>> >>
    [] OTHER -> << >>
RecordOf(o) ==
  CASE o.kind = "BadError" ->
         << <<o.method, UriToString(o.uri), StatusToString(o.status)>> >>
    [] o.kind = "BadHttp" ->
         << <<o.method, UriToString(o.uri), o.err.msg>> >>
    [] OTHER -> << >>

\* body_path: outdir joined with "<method>/<path-and-query>".
BodyPath(o) == <<o.method, path_and_query(o.uri)>>

\* The report_file future spawned for a BadError outcome of trial k.
NewTask(k, o) ==
  [trial |-> k, path |-> BodyPath(o), body |-> o.body, pos |-> 0,
   st |-> "mkdir", why |-> "none", lost |-> FALSE]

\* write_record returned Err: map_err turns it into Error::WriteFailure, the
\* item of the stream is an Err.
\* (variant: the Err of write_record is dropped)
write_failed_ignored == for_each_ok
write_failed == for_each_err("WriteFailure")

\* The and_then closure of main on one outcome: spawn the body capture of a
\* BadError, write the record of a bad outcome.
Record ==
  /\ ~exit.done
  /\ pc = "record"
  /\ LET o == outcome
         k == Len(trials)
         rows == RecordOf(o)
     IN \E wr \in (IF rows = << >> THEN {"none"} ELSE WriteResults) :
          /\ tasks' = IF o.kind = "BadError" THEN Append(tasks, NewTask(k, o))
                                             ELSE tasks
          /\ consumed' = Append(consumed, [trial |-> k, outcome |-> o, wr |-> wr])
          /\ trials' = SetLast(trials, "record", o.kind)
          /\ IF wr = "fail"
             THEN /\ csv' = csv
                  /\ rowTrial' = rowTrial
                  /\ write_failed
             ELSE /\ csv' = csv \o rows
                  /\ rowTrial' = rowTrial \o [j \in 1..Len(rows) |-> k]
                  /\ for_each_ok
  /\ outcome' = NoOutcome
  /\ UNCHANGED <<ti, i, uri>>
  /\ UNCHANGED <<targets, n, files, reported, exit, cls, call>>

\* ------------------------------------------------- body-capture tasks
\* The map_err at the end of report_file: the error is logged and the task
\* ends; nothing of the pipeline is touched.
\* (variant: the error is handed to the pipeline)
report_file_err_abort(k, why) ==
  /\ tasks' = [tasks EXCEPT ![k] = [@ EXCEPT !.st = "failed", !.why = why]]
  /\ reported' = reported \cup {[msg |-> "Could not save response", e |-> why]}
  /\ pc' = "failed"
  /\ err' = why
  /\ UNCHANGED <<ti, i, uri, outcome, csv, trials, consumed, rowTrial>>
report_file_err(k, why) ==
  /\ tasks' = [tasks EXCEPT ![k] = [@ EXCEPT !.st = "failed", !.why = why]]
  /\ reported' = reported \cup {[msg |-> "Could not save response", e |-> why]}
  /\ UNCHANGED pipeVars

\* tokio_fs::create_dir_all(body_path_parent)
CreateDirAll ==
  /\ ~exit.done
  /\ \E k \in DOMAIN tasks :
       /\ tasks[k].st = "mkdir"
       /\ \E ok \in BOOLEAN :
            IF ok
            THEN /\ tasks' = [tasks EXCEPT ![k].st = "create"]
                 /\ UNCHANGED <<reported, pipeVars>>
            ELSE report_file_err(k, "Io")
  /\ UNCHANGED <<targets, n, files, exit, cls, call>>

\* tokio_fs::File::create(body_path): the file exists and is empty.
FileCreate ==
  /\ ~exit.done
  /\ \E k \in DOMAIN tasks :
       /\ tasks[k].st = "create"
       /\ \E ok \in BOOLEAN :
            IF ok
            THEN /\ tasks' = [tasks EXCEPT ![k].st = "copy"]
                 /\ files' = [files EXCEPT ![tasks[k].path] =
                                 [exists |-> TRUE, data |-> << >>]]
                 /\ UNCHANGED <<reported, pipeVars>>
            ELSE /\ report_file_err(k, "Io")
                 /\ UNCHANGED files
  /\ UNCHANGED <<targets, n, exit, cls, call>>

\* A write through a handle File::create gave: the handle has its own
\* offset, which starts at 0 and is not moved by the writes or the
\* truncations of another handle of the same file; a write past the end
\* leaves a hole.
Hole == <<0, 0, "hole">>
WriteAt(data, offset, x) ==
  IF offset <= Len(data) THEN [data EXCEPT ![offset] = x]
  ELSE (data \o [j \in 1..(offset - Len(data) - 1) |-> Hole]) \o <<x>>

\* What one step of body.for_each can do with the next chunk: the body
\* stream fails; poll_write fails; poll_write returns Ok with the whole chunk
\* written; or Ok with less (fewer bytes, or NotReady), which map(|_| ())
\* takes for done.
ChunkResults == {"full", "short", "ioerr", "readerr"}

CopyChunk ==
  /\ ~exit.done
  /\ \E k \in DOMAIN tasks :
       LET t == tasks[k] IN
       /\ t.st = "copy"
       /\ t.pos < Len(t.body)
       /\ \E r \in ChunkResults :
            CASE r = "readerr" -> /\ report_file_err(k, "Hyper")
                                  /\ UNCHANGED files
              [] r = "ioerr" -> /\ report_file_err(k, "Io")
                                /\ UNCHANGED files
              [] OTHER ->
                   /\ tasks' = [tasks EXCEPT ![k] =
                        [@ EXCEPT !.pos = @ + 1, !.lost = @ \/ (r = "short")]]
                   /\ files' = [files EXCEPT ![t.path].data =
                        WriteAt(@, t.pos + 1, <<t.trial, t.body[t.pos + 1], r>>)]
                   /\ UNCHANGED <<reported, pipeVars>>
  /\ UNCHANGED <<targets, n, exit, cls, call>>

\* The body stream has ended: for_each resolves and the task is complete.
BodyEnd ==
  /\ ~exit.done
  /\ \E k \in DOMAIN tasks :
       /\ tasks[k].st = "copy"
       /\ tasks[k].pos = Len(tasks[k].body)
       /\ tasks' = [tasks EXCEPT ![k].st = "done"]
  /\ UNCHANGED <<files, reported, pipeVars>>
  /\ UNCHANGED <<targets, n, exit, cls, call>>

\* ------------------------------------------------------- process exit
\* The runtime goes down with the process: the tasks that have not completed
\* are dropped.
CancelAll(ts) ==
  [k \in DOMAIN ts |->
     IF ts[k].st \in {"done", "failed"} THEN ts[k]
     ELSE [ts[k] EXCEPT !.st = "cancelled"]]

\* The status of a process that panicked (unwrap() of block_on's Err).
PanicStatus == 101

\* block_on returned Err: map_err has logged the error, unwrap() panics.
Abort ==
  /\ ~exit.done
  /\ pc = "failed"
  /\ reported' = reported \cup {[msg |-> "Irrecoverable error occurred.", e |-> err]}
  /\ exit' = Exited(PanicStatus)
  /\ pc' = "exited"
  /\ tasks' = CancelAll(tasks)
  /\ UNCHANGED <<ti, i, uri, outcome, err, csv, trials, consumed, rowTrial>>
  /\ UNCHANGED <<targets, n, files, cls, call>>

\* A main that would report recorded failures through its exit status.
Shutdown_failures_nonzero ==
  /\ ~exit.done
  /\ pc = "finished"
  /\ exit' = Exited(IF Len(csv) > 1 THEN 1 ELSE 0)
  /\ pc' = "exited"
  /\ tasks' = CancelAll(tasks)
  /\ UNCHANGED <<ti, i, uri, outcome, err, csv, trials, consumed, rowTrial>>
  /\ UNCHANGED <<targets, n, files, reported, cls, call>>

\* block_on returned Ok: println!, shutdown_now().wait(), main returns.
Shutdown ==
  /\ ~exit.done
  /\ pc = "finished"
  /\ exit' = Exited(0)
  /\ pc' = "exited"
  /\ tasks' = CancelAll(tasks)
  /\ UNCHANGED <<ti, i, uri, outcome, err, csv, trials, consumed, rowTrial>>
  /\ UNCHANGED <<targets, n, files, reported, cls, call>>

Next ==
  \/ StreamEnd
  \/ NextTarget
  \/ Sample
  \/ Build
  \/ SendResponse
  \/ SendError
  \/ Record
  \/ CreateDirAll
  \/ FileCreate
  \/ CopyChunk
  \/ BodyEnd
  \/ Abort
  \/ Shutdown

Spec == Init /\ [][Next]_vars

\* The steps of the future that block_on drives: block_on polls it until it
\* resolves, and hyper resolves every request with a response or an error.
PipelineStep ==
  \/ StreamEnd
  \/ NextTarget
  \/ Sample
  \/ Build
  \/ SendResponse
  \/ SendError
  \/ Record
  \/ Abort
  \/ Shutdown

FairSpec == Spec /\ WF_vars(PipelineStep)

\* ------------------------------------------------- the classifier alone
\* ServerOutcome::with_status applied to any status code a response carries.
InitClassify ==
  /\ targets = << >>
  /\ n = 0
  /\ pc = "classify"
  /\ ti = 1
  /\ i = 0
  /\ uri = NoUri
  /\ outcome = NoOutcome
  /\ err = "none"
  /\ csv = <<Header>>
  /\ tasks = << >>
  /\ files = [p \in Paths |-> NoFile]
  /\ reported = {}
  /\ exit = Running
  /\ trials = << >>
  /\ consumed = << >>
  /\ rowTrial = << >>
  /\ cls = NoCls
  /\ call = NoCall

Classify ==
  /\ pc = "classify"
  /\ \E status \in StatusCodes :
       cls' = [status |-> status,
               kind |-> with_status("GET", Uri("/a"), status, << >>).kind]
  /\ UNCHANGED <<targets, n, tasks, files, reported, exit, pipeVars, call>>

SpecClassify == InitClassify /\ [][Classify]_vars

\* --------------------------------------- strings and the random source
\* A String is the sequence of its characters.
starts_with(s, c) == Len(s) > 0 /\ s[1] = c
contains(s, c) == \E j \in DOMAIN s : s[j] = c
is_empty(s) == Len(s) = 0

DigitChars == <<"0", "1", "2", "3", "4", "5", "6", "7", "8", "9">>

\* rand::distributions::Alphanumeric: the 62 characters it draws from.
AlphanumericChars ==
  <<"A", "B", "C", "D", "E", "F", "G", "H", "I", "J", "K", "L", "M",
    "N", "O", "P", "Q", "R", "S", "T", "U", "V", "W", "X", "Y", "Z",
    "a", "b", "c", "d", "e", "f", "g", "h", "i", "j", "k", "l", "m",
    "n", "o", "p", "q", "r", "s", "t", "u", "v", "w", "x", "y", "z">>
  \o DigitChars

\* i64::to_string: decimal digits, '-' first for a negative number.
RECURSIVE NatToString(_)
NatToString(m) ==
  IF m < 10 THEN <<DigitChars[m + 1]>>
  ELSE Append(NatToString(m \div 10), DigitChars[(m % 10) + 1])

to_string(v) == IF v < 0 THEN <<"-">> \o NatToString(0 - v) ELSE NatToString(v)

\* The random source (Pcg64Mcg in main.rs): its state is the sequence of
\* draws it has yet to give; past the modelled prefix every draw is 0.
RngLen == 2
RngDraws == {0, 1, 2}
Rngs == [1..RngLen -> RngDraws]

next_u(rng) == IF rng = << >> THEN 0 ELSE Head(rng)
advance(rng) == IF rng = << >> THEN << >> ELSE Tail(rng)

\* What a generator call gives: the string, the random source after the
\* call, and whether the call panicked instead of returning.
Sampled(val, rng) == [val |-> val, rng |-> rng, panic |-> FALSE]
Panicked(rng) == [val |-> << >>, rng |-> rng, panic |-> TRUE]

\* Rng::gen_range(low ..= high): panics on an empty range.
gen_range(low, high, rng) ==
  IF low > high THEN Panicked(rng)
  ELSE Sampled(low + (next_u(rng) % (high - low + 1)), advance(rng))

\* SliceRandom::choose on a non-empty slice: one element, one draw.
choose(slice, rng) == Sampled(slice[(next_u(rng) % Len(slice)) + 1], advance(rng))

\* std::iter::repeat_with(|| one character of alphabet).take(len).collect()
RECURSIVE repeat_with(_, _, _)
repeat_with(alphabet, len, rng) ==
  IF len = 0 THEN Sampled(<< >>, rng)
  ELSE LET rest == repeat_with(alphabet, len - 1, advance(rng))
       IN  Sampled(<<alphabet[(next_u(rng) % Len(alphabet)) + 1]>> \o rest.val,
                   rest.rng)

\* --------------------------------------------------------- ArgGenerator
Fixed(value) == [type |-> "fixed", value |-> value]
Choice(values) == [type |-> "choice", values |-> values]
IntRange(low, high) == [type |-> "range", low |-> low, high |-> high]
Numeric(len) == [type |-> "numeric", len |-> len]
AlphaNumeric(len) == [type |-> "alphanumeric", len |-> len]
Union(generators) == [type |-> "union", generators |-> generators]
Magic == [type |-> "magic"]

\* The generators Magic chooses from.
MagicGenerators ==
  << Choice(<< << >>,
               <<"f", "a", "l", "s", "e">>,
               <<"t", "r", "u", "e">>,
               <<"n", "u", "l", "l">>,
               <<"u", "n", "d", "e", "f", "i", "n", "e", "d">>,
               <<"N", "a", "N">>,
               <<"%", "2", "0">>,
               <<"%", "2", "7">> >>),
     AlphaNumeric(16),
     IntRange(0 - 100000, 100000) >>

\* ArgGenerator::sample
RECURSIVE ArgGenerator_sample(_, _)
ArgGenerator_sample(g, rng) ==
  CASE g.type = "fixed" -> Sampled(g.value, rng)
    [] g.type = "choice" ->
         IF is_empty(g.values) THEN Sampled(<< >>, rng)
         ELSE choose(g.values, rng)
    [] g.type = "union" ->
         IF is_empty(g.generators) THEN Sampled(<< >>, rng)
         ELSE LET c == choose(g.generators, rng)
              IN  ArgGenerator_sample(c.val, c.rng)
    [] g.type = "range" ->
         LET v == gen_range(g.low, g.high, rng)
         IN  IF v.panic THEN v ELSE Sampled(to_string(v.val), v.rng)
    [] g.type = "numeric" -> repeat_with(DigitChars, g.len, rng)
    [] g.type = "alphanumeric" -> repeat_with(AlphanumericChars, g.len, rng)
    [] g.type = "magic" ->
         LET c == choose(MagicGenerators, rng)
         IN  ArgGenerator_sample(c.val, c.rng)

\* ----------------------------------------------------------- TestTarget
Path(generator) == [type |-> "path", generator |-> generator]
QueryString(name, value) == [type |-> "query", name |-> name, value |-> value]
TestTarget(endpoint, method, args) ==
  [endpoint |-> endpoint, method |-> method, args |-> args]

\* The characters http::Uri's parser refuses (of those the inputs hold).
InvalidUriChars == {" "}

\* str::parse::<Uri>: the Uri of the text, or InvalidUri.
parse_uri(text) ==
  IF is_empty(text) \/ \E c \in InvalidUriChars : contains(text, c)
  THEN [ok |-> FALSE, uri |-> << >>, e |-> "InvalidUri"]
  ELSE [ok |-> TRUE, uri |-> text, e |-> "none"]

\* What introduces a query argument: '?' for the first one, '&' after it.
\* (variant: every query argument is introduced by '&')
qs_separator_always_amp(qs) == "&"

qs_separator(qs) == IF is_empty(qs) THEN "?" ELSE "&"

\* name, then '=' and the value unless the value is empty
query_pair(name, val) ==
  IF ~is_empty(val) THEN name \o <<"=">> \o val ELSE name

\* the loop `for arg in &self.args` from the state (uri = u, qs, rng)
RECURSIVE sample_args(_, _, _, _)
sample_args(args, u, qs, rng) ==
  IF args = << >> THEN [uri |-> u, qs |-> qs, rng |-> rng, panic |-> FALSE]
  ELSE
    LET arg == Head(args) IN
    IF arg.type = "path"
    THEN LET v == ArgGenerator_sample(arg.generator, rng)
         IN  IF v.panic
             THEN [uri |-> u, qs |-> qs, rng |-> v.rng, panic |-> TRUE]
             ELSE sample_args(Tail(args), (u \o <<"/">>) \o v.val, qs, v.rng)
    ELSE LET nm == ArgGenerator_sample(arg.name, rng)
             vl == ArgGenerator_sample(arg.value, nm.rng)
         IN  IF nm.panic
             THEN [uri |-> u, qs |-> qs, rng |-> nm.rng, panic |-> TRUE]
             ELSE IF vl.panic
             THEN [uri |-> u, qs |-> qs \o <<qs_separator(qs)>> \o nm.val,
                   rng |-> vl.rng, panic |-> TRUE]
             ELSE sample_args(Tail(args), u,
                              qs \o <<qs_separator(qs)>> \o query_pair(nm.val, vl.val),
                              vl.rng)

\* base_url, a '/' unless the endpoint starts with one, the endpoint
uri_prefix(endpoint, base_url) ==
  IF ~starts_with(endpoint, "/") THEN (base_url \o <<"/">>) \o endpoint
  ELSE base_url \o endpoint

\* TestTarget::sample: the text built, its parse, and the random source
\* after the call; a panic in a generator unwinds out of sample.
TestTarget_sample(target, base_url, rng) ==
  LET l == sample_args(target.args, uri_prefix(target.endpoint, base_url),
                       << >>, rng)
      text == l.uri \o l.qs
  IN  IF l.panic
      THEN [panic |-> TRUE, text |-> << >>, result |-> parse_uri(<< >>), rng |-> l.rng]
      ELSE [panic |-> FALSE, text |-> text, result |-> parse_uri(text), rng |-> l.rng]

\* ----------------------------------------------- TestTarget::sample alone
MaxArgs == 3

\* "http://x" and "http://x/"
BaseUrls ==
  { <<"h", "t", "t", "p", ":", "/", "/", "x">>,
    <<"h", "t", "t", "p", ":", "/", "/", "x", "/">> }

\* "users" and "/users"
Endpoints == { <<"u", "s", "e", "r", "s">>, <<"/", "u", "s", "e", "r", "s">> }

SampleArgs ==
  { Path(Fixed(<<"a">>)),
    Path(Choice(<< << >>, <<"b">> >>)),
    Path(Fixed(<<" ">>)),
    Path(IntRange(2, 1)),
    QueryString(Fixed(<<"q">>), Fixed(<< >>)),
    QueryString(Fixed(<<"q">>), Choice(<< << >>, <<"1">> >>)),
    QueryString(Fixed(<<"r">>), IntRange(7, 8)) }

SampleTargets ==
  { TestTarget(e, "GET", a) :
      e \in Endpoints, a \in UNION { [1..k -> SampleArgs] : k \in 0..MaxArgs } }

NoSample == [panic |-> FALSE, text |-> << >>, result |-> parse_uri(<< >>), rng |-> << >>]

InitSample ==
  /\ targets = << >>
  /\ n = 0
  /\ pc = "sample"
  /\ ti = 1
  /\ i = 0
  /\ uri = NoUri
  /\ outcome = NoOutcome
  /\ err = "none"
  /\ csv = <<Header>>
  /\ tasks = << >>
  /\ files = [p \in Paths |-> NoFile]
  /\ reported = {}
  /\ exit = Running
  /\ trials = << >>
  /\ consumed = << >>
  /\ rowTrial = << >>
  /\ cls = NoCls
  /\ \E target \in SampleTargets, base_url \in BaseUrls, rng \in Rngs :
       call = [op |-> "TestTarget::sample", done |-> FALSE, target |-> target,
               base_url |-> base_url, rng |-> rng, out |-> NoSample]

CallSample ==
  /\ pc = "sample"
  /\ ~call.done
  /\ call' = [call EXCEPT !.done = TRUE,
                          !.out = TestTarget_sample(call.target, call.base_url, call.rng)]
  /\ UNCHANGED <<targets, n, tasks, files, reported, exit, pipeVars, cls>>

SpecSample == InitSample /\ [][CallSample]_vars

\* ------------------------------------------------ Config: the routes file
\* str::split(sep): the pieces between the separators, empty ones kept
RECURSIVE split(_, _)
split(s, sep) ==
  IF ~contains(s, sep) THEN <<s>>
  ELSE LET j == CHOOSE j \in DOMAIN s :
                  s[j] = sep /\ \A m \in 1..(j - 1) : s[m] # sep
       IN  <<SubSeq(s, 1, j - 1)>> \o split(SubSeq(s, j + 1, Len(s)), sep)

NonEmpty(s) == ~is_empty(s)

\* str::split_whitespace: the non-empty pieces between white space
split_whitespace(s) == SelectSeq(split(s, " "), NonEmpty)

\* the line up to its first '#'
strip_comment(t) ==
  IF contains(t, "#")
  THEN LET j == CHOOSE j \in DOMAIN t :
                  t[j] = "#" /\ \A m \in 1..(j - 1) : t[m] # "#"
       IN  SubSeq(t, 1, j - 1)
  ELSE t

\* Itertools::next_tuple for a pair: the first two items, if there are two
next_tuple(tokens) ==
  IF Len(tokens) >= 2 THEN <<<<tokens[1], tokens[2]>>>> ELSE << >>

Star == <<"*">>
GET == <<"G", "E", "T">>
POST == <<"P", "O", "S", "T">>
PUT == <<"P", "U", "T">>
DELETE == <<"D", "E", "L", "E", "T", "E">>

\* filter_map: the (method, uri) of a line whose first word is a method or '*'
route_of_line(l) ==
  LET t == next_tuple(split_whitespace(l))
  IN  IF t # << >> /\ t[1][1] \in {Star, GET, POST, PUT, DELETE} THEN t ELSE << >>

\* flat_map: '*' stands for the four methods
expand_method(route) ==
  IF route[1] = Star
  THEN <<<<GET, route[2]>>, <<POST, route[2]>>, <<PUT, route[2]>>, <<DELETE, route[2]>>>>
  ELSE <<route>>

\* Method::from_str
Method_from_str(s) ==
  CASE s \in {GET, <<"g", "e", "t">>, <<"G", "e", "t">>} -> [ok |-> TRUE, method |-> "GET"]
    [] s \in {PUT, <<"p", "u", "t">>, <<"P", "u", "t">>} -> [ok |-> TRUE, method |-> "PUT"]
    [] s \in {POST, <<"p", "o", "s", "t">>, <<"P", "o", "s", "t">>} ->
         [ok |-> TRUE, method |-> "POST"]
    [] s \in {DELETE, <<"d", "e", "l", "e", "t", "e">>, <<"D", "e", "l", "e", "t", "e">>} ->
         [ok |-> TRUE, method |-> "DELETE"]
    [] OTHER -> [ok |-> FALSE, method |-> "Invalid method"]

\* the loop of parse_route_uri over the components left
RECURSIVE parse_components(_, _, _, _)
parse_components(components, base_endpoint, args, has_param) ==
  IF components = << >>
  THEN [ok |-> TRUE, endpoint |-> base_endpoint, args |-> args]
  ELSE
    LET component == Head(components) IN
    IF contains(component, "*")
    THEN [ok |-> FALSE, endpoint |-> << >>, args |-> << >>]
    ELSE IF starts_with(component, ":")
    THEN parse_components(Tail(components), base_endpoint,
                          Append(args, Path(Magic)), TRUE)
    ELSE IF ~has_param
    THEN parse_components(Tail(components),
                          (IF ~is_empty(base_endpoint)
                           THEN base_endpoint \o <<"/">> ELSE base_endpoint)
                            \o component,
                          args, has_param)
    ELSE parse_components(Tail(components), base_endpoint,
                          Append(args, Path(Fixed(component))), has_param)

\* Config::parse_route_uri
\* (variant: empty components of the pattern are passed over)
parse_route_uri_skip_empty(u) ==
  parse_components(SelectSeq(split(u, "/"), NonEmpty), << >>, << >>, FALSE)

parse_route_uri(u) == parse_components(split(u, "/"), << >>, << >>, FALSE)

\* map: the target of a (method, uri), or the error of either `?`
target_of_route(route) ==
  LET r == parse_route_uri(route[2])
      m == Method_from_str(route[1])
  IN  IF ~r.ok THEN [ok |-> FALSE, target |-> << >>]
      ELSE IF ~m.ok THEN [ok |-> FALSE, target |-> << >>]
      ELSE [ok |-> TRUE, target |-> TestTarget(r.endpoint, m.method, r.args)]

\* flat_map over the Results and collect: the targets of the Ok ones
\* (variant: the first Err fails the load, as collecting into a Result would)
collect_or_fail(results) ==
  IF \E j \in DOMAIN results : ~results[j].ok
  THEN [ok |-> FALSE, targets |-> << >>]
  ELSE [ok |-> TRUE, targets |-> [j \in DOMAIN results |-> results[j].target]]

IsOk(r) == r.ok
collect(results) ==
  LET oks == SelectSeq(results, IsOk)
  IN  [ok |-> TRUE, targets |-> [j \in DOMAIN oks |-> oks[j].target]]

\* lines ... flat_map: the (method, uri) routes of the lines, in file order
line_routes(t) ==
  LET l == strip_comment(t) IN
  IF is_empty(l) THEN << >>
  ELSE LET r == route_of_line(l)
       IN  IF r = << >> THEN << >> ELSE expand_method(r[1])

RECURSIVE file_routes(_)
file_routes(lines) ==
  IF lines = << >> THEN << >>
  ELSE line_routes(Head(lines)) \o file_routes(Tail(lines))

\* Config::from_routes_file on the lines of a file that could be read
from_routes_file(lines) ==
  LET routes == file_routes(lines)
  IN  collect([j \in DOMAIN routes |-> target_of_route(routes[j])])

\* ------------------------------------------------- the routes file alone
MaxComponents == 4
MaxLines == 3

RECURSIVE Join(_, _)
Join(pieces, sep) ==
  IF pieces = << >> THEN << >>
  ELSE IF Len(pieces) = 1 THEN pieces[1]
  ELSE (pieces[1] \o <<sep>>) \o Join(Tail(pieces), sep)

\* the components a uri pattern is made of: "", "a", ":i", "*", "b*"
RouteComponents == { << >>, <<"a">>, <<":", "i">>, <<"*">>, <<"b", "*">> }
RoutePatterns == UNION { [1..k -> RouteComponents] : k \in 1..MaxComponents }

Items == <<"i", "t", "e", "m", "s">>
ItemsLine == (GET \o <<" ", "/">>) \o (Items \o <<"/", ":", "i", "d">>)

\* "GET /items/:id", "* /a", "POST /f/*p", "* /*", "# c", "", "PATCH /a",
\* "GET", "PUT /a/:i/b # x", "DELETE /a"
RouteLines ==
  { (GET \o <<" ", "/">>) \o (Items \o <<"/", ":", "i", "d">>),
    Star \o <<" ", "/", "a">>,
    POST \o <<" ", "/", "f", "/", "*", "p">>,
    Star \o <<" ", "/", "*">>,
    <<"#", " ", "c">>,
    << >>,
    <<"P", "A", "T", "C", "H", " ", "/", "a">>,
    GET,
    PUT \o <<" ", "/", "a", "/", ":", "i", "/", "b", " ", "#", " ", "x">>,
    DELETE \o <<" ", "/", "a">> }
RouteFiles == UNION { [1..k -> RouteLines] : k \in 0..MaxLines }

InitRoutes ==
  /\ targets = << >>
  /\ n = 0
  /\ pc = "routes"
  /\ ti = 1
  /\ i = 0
  /\ uri = NoUri
  /\ outcome = NoOutcome
  /\ err = "none"
  /\ csv = <<Header>>
  /\ tasks = << >>
  /\ files = [p \in Paths |-> NoFile]
  /\ reported = {}
  /\ exit = Running
  /\ trials = << >>
  /\ consumed = << >>
  /\ rowTrial = << >>
  /\ cls = NoCls
  /\ \/ \E components \in RoutePatterns :
          call = [op |-> "Config::parse_route_uri", done |-> FALSE,
                  components |-> components, uri |-> Join(components, "/"),
                  out |-> parse_components(<< >>, << >>, << >>, FALSE)]
     \/ \E lines \in RouteFiles :
          call = [op |-> "Config::from_routes_file", done |-> FALSE,
                  lines |-> lines, out |-> collect(<< >>)]

CallParseRouteUri ==
  /\ pc = "routes"
  /\ call.op = "Config::parse_route_uri"
  /\ ~call.done
  /\ call' = [call EXCEPT !.done = TRUE, !.out = parse_route_uri(call.uri)]
  /\ UNCHANGED <<targets, n, tasks, files, reported, exit, pipeVars, cls>>

CallFromRoutesFile ==
  /\ pc = "routes"
  /\ call.op = "Config::from_routes_file"
  /\ ~call.done
  /\ call' = [call EXCEPT !.done = TRUE, !.out = from_routes_file(call.lines)]
  /\ UNCHANGED <<targets, n, tasks, files, reported, exit, pipeVars, cls>>

NextRoutes ==
  \/ CallParseRouteUri
  \/ CallFromRoutesFile

SpecRoutes == InitRoutes /\ [][NextRoutes]_vars

\* ------------------------------------- loading and ArgGenerator::sample
MaxUnion == 2

\* Config::from_file on a file that is not named "routes": serde gives the
\* configuration the text describes; the extension alone decides whether
\* the file is read, and nothing looks at the values of a generator.
Config_from_file(extension, config) ==
  IF extension \in {"json", "yml", "yaml"}
  THEN [ok |-> TRUE, config |-> config]
  ELSE [ok |-> FALSE, config |-> << >>]

Extensions == {"json", "yml", "yaml", "toml"}

GenLeaves ==
  { Fixed(<<"a">>), Choice(<< >>), Choice(<< << >>, <<"b">> >>),
    IntRange(1, 1), IntRange(1, 3), IntRange(3, 1), IntRange(0 - 2, 0),
    Numeric(0), Numeric(2), AlphaNumeric(2), Union(<< >>), Magic }
GenTrees ==
  GenLeaves \cup { Union(gs) : gs \in UNION { [1..k -> GenLeaves] : k \in 1..MaxUnion } }

InitGen ==
  /\ targets = << >>
  /\ n = 0
  /\ pc = "gen"
  /\ ti = 1
  /\ i = 0
  /\ uri = NoUri
  /\ outcome = NoOutcome
  /\ err = "none"
  /\ csv = <<Header>>
  /\ tasks = << >>
  /\ files = [p \in Paths |-> NoFile]
  /\ reported = {}
  /\ exit = Running
  /\ trials = << >>
  /\ consumed = << >>
  /\ rowTrial = << >>
  /\ cls = NoCls
  /\ \E extension \in Extensions, generator \in GenTrees, rng \in Rngs :
       call = [op |-> "ArgGenerator::sample", extension |-> extension,
               generator |-> generator, rng |-> rng, load |-> "none",
               done |-> FALSE, out |-> Sampled(<< >>, rng)]

\* main: Config::from_file(config_file).unwrap()
LoadConfig ==
  /\ pc = "gen"
  /\ call.load = "none"
  /\ call' = [call EXCEPT !.load =
                IF Config_from_file(call.extension, call.generator).ok
                THEN "loaded" ELSE "rejected"]
  /\ UNCHANGED <<targets, n, tasks, files, reported, exit, pipeVars, cls>>

\* a trial samples the generator of a configuration that was loaded
CallGenSample ==
  /\ pc = "gen"
  /\ call.load = "loaded"
  /\ ~call.done
  /\ call' = [call EXCEPT !.done = TRUE,
                          !.out = ArgGenerator_sample(call.generator, call.rng)]
  /\ UNCHANGED <<targets, n, tasks, files, reported, exit, pipeVars, cls>>

NextGen ==
  \/ LoadConfig
  \/ CallGenSample

SpecGen == InitGen /\ [][NextGen]_vars

\* ---------------------------------------------------------- properties
TrialCount == Len(targets) * n

\* Trial j of target t has been started.
Ran(t, j) == \E k \in DOMAIN trials : trials[k].t = t /\ trials[k].i = j

\* The number of rows of failures.csv that trial k has yielded.
Rows(k) == Cardinality({j \in DOMAIN rowTrial : rowTrial[j] = k})

\* The recorder has received the outcome of trial k.
Consumed(k) == \E j \in DOMAIN consumed : consumed[j].trial = k

OutcomeKinds == {"Good", "BadError", "BadHttp"}
PerTrialErrors == {"InvalidRequest", "Http", "HttpStream"}

\* Trial k went through sample, build, issue, classify and the recorder.
RanNormally(k) ==
  /\ trials[k].stage = "record"
  /\ trials[k].res \in OutcomeKinds
  /\ Consumed(k)

Irrecoverable(e) == [msg |-> "Irrecoverable error occurred.", e |-> e]

\* The run has been stopped by error e: nothing is polled any more, and the
\* process exits with the panic status once the error is logged.
StoppedBy(e) ==
  /\ err = e
  /\ pc \in {"failed", "exited"}
  /\ pc = "failed" => ENABLED Abort
  /\ exit.done => exit.status = PanicStatus /\ Irrecoverable(e) \in reported

RECURSIVE ExpectedRows(_, _)
ExpectedRows(cs, all) ==
  IF cs = << >> THEN << >>
  ELSE LET c == Head(cs)
           o == c.outcome
           row == <<o.method, o.uri.base \o o.uri.pq,
                    IF o.kind = "BadError" THEN StatusToString(o.status)
                                           ELSE o.err.msg>>
       IN (IF o.kind \in {"BadError", "BadHttp"} /\ (all \/ c.wr # "fail")
           THEN <<row>> ELSE << >>) \o ExpectedRows(Tail(cs), all)

\* C5 as stated: in every reachable state the failure log is the header
\* followed by one row per bad outcome the recorder has consumed.
C5_OneRowPerBadOutcome ==
  csv = <<Header>> \o ExpectedRows(consumed, TRUE)

\* C5 amended: in every reachable state the failure log is the header row
\* followed by exactly one row {method, uri, reason} per bad outcome consumed
\* so far whose row write did not fail, in the order consumed; a Good outcome
\* adds no row, a trial that ended in a sampling error adds no row, and the
\* one bad outcome whose row write failed (the last one consumed) adds none.
C5_OneRowPerWrittenBadOutcome ==
  /\ csv = <<Header>> \o ExpectedRows(consumed, FALSE)
  /\ Len(rowTrial) = Len(csv) - 1
  /\ \A j \in DOMAIN consumed :
       /\ consumed[j].outcome.kind = "Good" => Rows(consumed[j].trial) = 0
       /\ consumed[j].wr = "fail" => j = Len(consumed) /\ Rows(consumed[j].trial) = 0
       /\ (consumed[j].outcome.kind # "Good" /\ consumed[j].wr # "fail")
            => Rows(consumed[j].trial) = 1
  /\ \A k \in DOMAIN trials :
       trials[k].res = "InvalidRequest" => Rows(k) = 0

C5_Witness ==
  /\ Len(csv) = 3
  /\ csv[1] = <<"method", "uri", "reason">>
  /\ csv[2] = <<"GET", "http://x/a?q", "503">>
  /\ csv[3] = <<"GET", "http://x/a?q", "parsed HTTP message from remote is incomplete">>
  /\ Len(trials) = 4
  /\ trials[3].res = "Good" /\ Consumed(3)
  /\ trials[4].res = "InvalidRequest"
  /\ exit.done

\* C6: for every status code a response can carry, with_status gives
\* BadError if and only if the code is at least 500, and Good otherwise; so
\* 500-599 gives BadError and 200-499 gives Good.
C6_BadErrorIffAtLeast500 ==
  cls.kind # "none" =>
    /\ cls.kind = "BadError" <=> cls.status >= 500
    /\ cls.kind = "Good" <=> cls.status < 500
    /\ cls.status \in 500..599 => cls.kind = "BadError"
    /\ cls.status \in 200..499 => cls.kind = "Good"

C6_Witness ==
  /\ cls.status = 500
  /\ cls.kind = "BadError"

\* The row of trial tr is {method, uri, reason}.
HasRow(tr, method, u, reason) ==
  \E r \in DOMAIN rowTrial :
    rowTrial[r] = tr /\ csv[r + 1] = <<method, UriToString(u), reason>>

\* C7 as stated: a connection-level error is a pipeline error, never an
\* outcome and never a row; any other transport error is a BadHttp outcome,
\* no pipeline error, and yields exactly one row.
C7_OtherTransportErrorOneRow ==
  /\ \A k \in DOMAIN trials :
       trials[k].res = "HttpStream" => ~Consumed(k) /\ Rows(k) = 0
  /\ \A j \in DOMAIN consumed :
       consumed[j].outcome.kind = "BadHttp" =>
         /\ ~consumed[j].outcome.err.connect
         /\ err # "HttpStream"
         /\ Rows(consumed[j].trial) = 1

\* C7 amended: a connection-level error becomes the pipeline error
\* HttpStream and never a ServerOutcome, so it never yields a row; any
\* non-connection transport error becomes a BadHttp outcome and no HttpStream
\* error, and yields exactly one row {method, uri, error}, unless the write of
\* that row fails: then it yields none and the run ends with WriteFailure.
C7_TransportErrorSplit ==
  /\ \A k \in DOMAIN trials :
       trials[k].res = "HttpStream" =>
         /\ ~Consumed(k)
         /\ Rows(k) = 0
         /\ err = "HttpStream"
  /\ \A j \in DOMAIN consumed :
       LET c == consumed[j] IN
       c.outcome.kind = "BadHttp" =>
         /\ ~c.outcome.err.connect
         /\ trials[c.trial].res = "BadHttp"
         /\ err # "HttpStream" \/ c.trial < Len(trials)
         /\ Rows(c.trial) = IF c.wr = "fail" THEN 0 ELSE 1
         /\ c.wr # "fail" =>
              HasRow(c.trial, c.outcome.method, c.outcome.uri, c.outcome.err.msg)
         /\ c.wr = "fail" => err = "WriteFailure"

C7_Witness ==
  /\ exit.done
  /\ Len(trials) = 2
  /\ trials[1].res = "BadHttp" /\ Rows(1) = 1
  /\ trials[2].res = "HttpStream" /\ Rows(2) = 0
  /\ Len(csv) = 2

\* C8: for every BadError outcome, a failure of its body capture (creating
\* the directories or the file, reading or writing a chunk) is reported and
\* touches nothing else: the row of that outcome is written as its row write
\* decides, the run never stops with the capture's error, and a run that no
\* pipeline error stops runs all its trials and exits with status 0.
C8_BodyFailureIsolated ==
  \A k \in DOMAIN tasks :
    tasks[k].st = "failed" =>
      LET tr == tasks[k].trial IN
      /\ [msg |-> "Could not save response", e |-> tasks[k].why] \in reported
      /\ trials[tr].res = "BadError"
      /\ Consumed(tr)
      /\ \A j \in DOMAIN consumed :
           (consumed[j].trial = tr /\ consumed[j].wr = "ok") =>
             /\ Rows(tr) = 1
             /\ HasRow(tr, consumed[j].outcome.method, consumed[j].outcome.uri,
                       StatusToString(consumed[j].outcome.status))
      /\ err \notin {"Io", "Hyper"}
      /\ err = "none" =>
           /\ pc # "failed"
           /\ exit.done => exit.status = 0 /\ Len(trials) = TrialCount
      /\ err # "none" =>
           \/ err = trials[Len(trials)].res
           \/ err = "WriteFailure" /\ consumed[Len(consumed)].wr = "fail"

C8_Witness ==
  /\ exit.done /\ exit.status = 0
  /\ Len(trials) = 4
  /\ Len(tasks) = 2
  /\ tasks[1].trial = 1 /\ tasks[1].st = "failed" /\ tasks[1].why = "Io"
  /\ tasks[2].trial = 2 /\ tasks[2].st = "failed" /\ tasks[2].why = "Hyper"
  /\ Rows(1) = 1 /\ Rows(2) = 1
  /\ trials[4].res = "Good"

\* C9: a failed write of a CSV row is irrecoverable: the outcome whose row
\* write failed is the last one consumed and belongs to the last trial
\* started, no row is written for it or after it, the error is reported and
\* the process exits with a non-zero status.
C9_WriteFailureAborts ==
  \A j \in DOMAIN consumed :
    consumed[j].wr = "fail" =>
      /\ j = Len(consumed)
      /\ consumed[j].trial = Len(trials)
      /\ Rows(consumed[j].trial) = 0
      /\ Len(csv) = 1 + Len(ExpectedRows(SubSeq(consumed, 1, j - 1), TRUE))
      /\ pc \notin {"poll", "build", "send", "record", "finished"}
      /\ StoppedBy("WriteFailure")
      /\ PanicStatus # 0

C9_Witness ==
  /\ exit.done /\ exit.status = PanicStatus
  /\ Len(targets) = 2 /\ n = 2
  /\ Len(trials) = 2
  /\ Len(consumed) = 2
  /\ consumed[1].wr = "ok"
  /\ consumed[2].wr = "fail"
  /\ Len(csv) = 2
  /\ Irrecoverable("WriteFailure") \in reported

\* No filesystem operation of the run has failed or fallen short, and no
\* body stream has failed.
FsDidNotFail ==
  /\ \A j \in DOMAIN consumed : consumed[j].wr # "fail"
  /\ \A k \in DOMAIN tasks : tasks[k].st # "failed" /\ ~tasks[k].lost

\* C10 as stated: when the server answers a request with a 5xx status and
\* the filesystem does not fail, then once the process has exited the row
\* {method, uri, status} is in the log and the body capture of that response
\* has completed, its file being there.
C10_BodySavedByExit ==
  (exit.done /\ FsDidNotFail) =>
    \A j \in DOMAIN consumed :
      LET c == consumed[j] IN
      c.outcome.kind = "BadError" =>
        /\ HasRow(c.trial, c.outcome.method, c.outcome.uri,
                  StatusToString(c.outcome.status))
        /\ \E k \in DOMAIN tasks : tasks[k].trial = c.trial /\ tasks[k].st = "done"
        /\ files[BodyPath(c.outcome)].exists

IsPrefix(p, s) == Len(p) <= Len(s) /\ SubSeq(s, 1, Len(p)) = p

\* s without the '/' it ends with, and without the '/' it starts with
WithoutTrailingSlash(s) ==
  IF Len(s) > 0 /\ s[Len(s)] = "/" THEN SubSeq(s, 1, Len(s) - 1) ELSE s
WithoutLeadingSlash(s) == IF starts_with(s, "/") THEN Tail(s) ELSE s

SampleReturned ==
  /\ call.op = "TestTarget::sample"
  /\ call.done
  /\ ~call.out.panic

\* C12: for every base URL (with or without a trailing '/') and endpoint
\* template (with or without a leading '/'), the string TestTarget::sample
\* builds has exactly one '/' between the base URL and the endpoint.
C12_ExactlyOneSeparator ==
  SampleReturned =>
    IsPrefix((WithoutTrailingSlash(call.base_url) \o <<"/">>)
               \o WithoutLeadingSlash(call.target.endpoint),
             call.out.text)

\* ------------------------------------------------------------------ C13
\* The values the generators of args give, in declaration order, each call
\* taking the random source where the previous one left it.
RECURSIVE SampledArgs(_, _)
SampledArgs(args, rng) ==
  IF args = << >> THEN << >>
  ELSE LET a == Head(args) IN
       IF a.type = "path"
       THEN LET v == ArgGenerator_sample(a.generator, rng)
            IN  <<[type |-> "path", name |-> << >>, value |-> v.val]>>
                  \o SampledArgs(Tail(args), v.rng)
       ELSE LET nm == ArgGenerator_sample(a.name, rng)
                vl == ArgGenerator_sample(a.value, nm.rng)
            IN  <<[type |-> "query", name |-> nm.val, value |-> vl.val]>>
                  \o SampledArgs(Tail(args), vl.rng)

IsPathArg(a) == a.type = "path"
IsQueryArg(a) == a.type = "query"

\* '/' + value for each path value of sv, in order
RECURSIVE PathPart(_)
PathPart(sv) ==
  IF sv = << >> THEN << >>
  ELSE (<<"/">> \o Head(sv).value) \o PathPart(Tail(sv))

\* the query values of sv from the k-th on: the first of all by '?', the
\* others by '&', the bare name when the value is empty
RECURSIVE QueryPart(_, _)
QueryPart(sv, k) ==
  IF k > Len(sv) THEN << >>
  ELSE ((<<IF k = 1 THEN "?" ELSE "&">> \o sv[k].name)
          \o (IF sv[k].value = << >> THEN << >> ELSE <<"=">> \o sv[k].value))
         \o QueryPart(sv, k + 1)

\* C13: for every argument list, in any interleaving of path and query
\* arguments, the string built is the path, then '/' + value for each path
\* argument in declaration order, then the query string: '?' before the
\* first query argument, '&' before each later one, the bare name for an
\* empty value and name=value otherwise; a single query argument q with an
\* empty value gives exactly "?q".
C13_PathThenQuery ==
  SampleReturned =>
    LET sv == SampledArgs(call.target.args, call.rng)
        prefix == uri_prefix(call.target.endpoint, call.base_url)
    IN  /\ call.out.text = (prefix \o PathPart(SelectSeq(sv, IsPathArg)))
                             \o QueryPart(SelectSeq(sv, IsQueryArg), 1)
        /\ call.out.result = parse_uri(call.out.text)
        /\ call.target.args = <<QueryString(Fixed(<<"q">>), Fixed(<< >>))>>
             => call.out.text = prefix \o <<"?", "q">>

\* Query, path, query: "http://x/users/a?q&r=7".
C13_Witness ==
  /\ SampleReturned
  /\ call.target.args = << QueryString(Fixed(<<"q">>), Fixed(<< >>)),
                           Path(Fixed(<<"a">>)),
                           QueryString(Fixed(<<"r">>), IntRange(7, 8)) >>
  /\ call.out.text = <<"h", "t", "t", "p", ":", "/", "/", "x", "/",
                       "u", "s", "e", "r", "s", "/", "a",
                       "?", "q", "&", "r", "=", "7">>
  /\ call.out.result.ok

\* ------------------------------------------------------------------ C14
IsPlaceholder(component) == starts_with(component, ":")

\* the index of the first ':' placeholder of components, or Len + 1
FirstPlaceholder(components) ==
  IF \E j \in DOMAIN components : IsPlaceholder(components[j])
  THEN CHOOSE j \in DOMAIN components :
         /\ IsPlaceholder(components[j])
         /\ \A m \in 1..(j - 1) : ~IsPlaceholder(components[m])
  ELSE Len(components) + 1

\* the args of the components from the first placeholder on, in order
ArgsFrom(components, p) ==
  [j \in 1..(Len(components) - p + 1) |->
     IF IsPlaceholder(components[p + j - 1]) THEN Path(Magic)
     ELSE Path(Fixed(components[p + j - 1]))]

RECURSIVE WithoutLeadingSlashes(_)
WithoutLeadingSlashes(s) ==
  IF starts_with(s, "/") THEN WithoutLeadingSlashes(Tail(s)) ELSE s

ParsedRoute ==
  /\ call.op = "Config::parse_route_uri"
  /\ call.done
  /\ call.out.ok

LoadedRoutes ==
  /\ call.op = "Config::from_routes_file"
  /\ call.done

\* C14 as stated: the components before the first ':' placeholder, as they
\* stand in the pattern, form the endpoint (GET /items/:id gives endpoint
\* "/items", method GET, args [Path(Magic)]), every placeholder becomes
\* Path(Magic) and every literal component after one Path(Fixed(component)).
C14_EndpointIsPatternPrefix ==
  /\ ParsedRoute =>
       LET p == FirstPlaceholder(call.components)
       IN  /\ call.out.endpoint = Join(SubSeq(call.components, 1, p - 1), "/")
           /\ call.out.args = ArgsFrom(call.components, p)
  /\ LoadedRoutes /\ call.lines = <<ItemsLine>> =>
       call.out.targets = <<TestTarget(<<"/">> \o Items, "GET", <<Path(Magic)>>)>>

\* C14 (amended): the endpoint is the components before the first ':'
\* placeholder joined by '/', without the '/' the pattern starts with
\* (GET /items/:id gives endpoint "items", method GET, args [Path(Magic)]);
\* every placeholder becomes Path(Magic) and every literal component after
\* a placeholder Path(Fixed(component)), in the order of the pattern.
C14_EndpointWithoutLeadingSlash ==
  /\ ParsedRoute =>
       LET p == FirstPlaceholder(call.components)
       IN  /\ call.out.endpoint =
                WithoutLeadingSlashes(Join(SubSeq(call.components, 1, p - 1), "/"))
           /\ call.out.args = ArgsFrom(call.components, p)
  /\ LoadedRoutes /\ call.lines = <<ItemsLine>> =>
       call.out.targets = <<TestTarget(Items, "GET", <<Path(Magic)>>)>>

\* "/a/:i/a" gives endpoint "a" and args [Path(Magic), Path(Fixed("a"))].
C14_Witness ==
  /\ ParsedRoute
  /\ call.components = << << >>, <<"a">>, <<":", "i">>, <<"a">> >>
  /\ call.out.endpoint = <<"a">>
  /\ call.out.args = <<Path(Magic), Path(Fixed(<<"a">>))>>

\* ------------------------------------------------------------------ C15
\* the targets a line of the file stands for: none if it is no route line
\* or its uri pattern holds a '*'; else one per method ('*' stands for
\* GET, POST, PUT, DELETE), all with the endpoint and args of the pattern
LineTargets(t) ==
  LET r == route_of_line(strip_comment(t)) IN
  IF r = << >> THEN << >>
  ELSE IF contains(r[1][2], "*") THEN << >>
  ELSE LET e == parse_route_uri(r[1][2])
           ms == IF r[1][1] = Star THEN <<"GET", "POST", "PUT", "DELETE">>
                 ELSE <<Method_from_str(r[1][1]).method>>
       IN  [j \in DOMAIN ms |-> TestTarget(e.endpoint, ms[j], e.args)]

RECURSIVE FileTargets(_)
FileTargets(lines) ==
  IF lines = << >> THEN << >>
  ELSE LineTargets(Head(lines)) \o FileTargets(Tail(lines))

\* C15: a route whose uri pattern has a component containing '*' is
\* rejected alone: loading still succeeds, the rejected route gives no
\* target (none of the four when its method is '*'), and every other route
\* line, before or after it, still gives its targets, in file order.
C15_WildcardRouteRejectedAlone ==
  LoadedRoutes =>
    /\ call.out.ok
    /\ call.out.targets = FileTargets(call.lines)

\* "DELETE /a", "* /*", "GET /items/:id": two targets, DELETE then GET.
C15_Witness ==
  /\ LoadedRoutes
  /\ call.lines = <<DELETE \o <<" ", "/", "a">>, Star \o <<" ", "/", "*">>, ItemsLine>>
  /\ call.out.ok
  /\ Len(call.out.targets) = 2
  /\ call.out.targets[1] = TestTarget(<<"a">>, "DELETE", << >>)
  /\ call.out.targets[2] = TestTarget(Items, "GET", <<Path(Magic)>>)

\* ------------------------------------------------------------------ C16
RECURSIVE HasEmptyRange(_)
HasEmptyRange(g) ==
  \/ g.type = "range" /\ g.low > g.high
  \/ g.type = "union" /\ \E j \in DOMAIN g.generators : HasEmptyRange(g.generators[j])

\* C16: sampling a generator never fails at run time: an IntRange with
\* low = high gives that single value, an IntRange with low > high is
\* rejected when the configuration is loaded, and so no generator of a
\* configuration that was loaded makes ArgGenerator::sample panic.
C16_SampleNeverPanics ==
  call.op = "ArgGenerator::sample" =>
    /\ call.load = "loaded" => ~HasEmptyRange(call.generator)
    /\ call.done => ~call.out.panic
    /\ call.done /\ call.generator = IntRange(1, 1) => call.out.val = <<"1">>

\* ------------------------------------------------------------------ C18
\* The row of failures.csv that stands for the bad outcome of trial k.
RowOfTrial(k) ==
  LET c == consumed[CHOOSE j \in DOMAIN consumed : consumed[j].trial = k].outcome
  IN  <<c.method, UriToString(c.uri),
        IF c.kind = "BadError" THEN StatusToString(c.status) ELSE c.err.msg>>

\* failures.csv holds whole rows, each the row of one trial whose request
\* has completed with a bad outcome, no trial twice, in the order written.
RowsAreWhole ==
  /\ Len(csv) = 1 + Len(rowTrial)
  /\ csv[1] = Header
  /\ \A j \in DOMAIN rowTrial :
       /\ rowTrial[j] \in DOMAIN trials
       /\ trials[rowTrial[j]].stage = "record"
       /\ trials[rowTrial[j]].res \in {"BadError", "BadHttp"}
       /\ Consumed(rowTrial[j])
       /\ csv[j + 1] = RowOfTrial(rowTrial[j])
  /\ \A j1, j2 \in DOMAIN rowTrial : j1 < j2 => rowTrial[j1] < rowTrial[j2]

\* A step that changes failures.csv is the recorder at work on the trial
\* whose request has just completed: it appends one row, that of this trial,
\* and leaves the rows already written as they are.
OneRowWrite ==
  csv' # csv =>
    /\ pc = "record"
    /\ trials[Len(trials)].stage = "send"
    /\ Len(csv') = Len(csv) + 1
    /\ SubSeq(csv', 1, Len(csv)) = csv
    /\ rowTrial' = Append(rowTrial, Len(trials))

\* C18: writes to the failure log are serialized: a row is written by one
\* step of the one recorder, only after its own trial's request has
\* completed, and the rows of different trials and targets are never
\* interleaved nor overwritten.
C18_RowWritesSerialized == [](RowsAreWhole) /\ [][OneRowWrite]_vars

\* Two rows of failures.csv come from trials of different targets.
C18_Witness ==
  /\ Len(rowTrial) >= 2
  /\ trials[rowTrial[1]].t # trials[rowTrial[2]].t
  /\ csv[2] # csv[3]

\* ------------------------------------------------------------------ C19
\* The trials whose request has been sent and not yet answered.
InFlight ==
  {k \in DOMAIN trials : trials[k].stage = "build" /\ trials[k].res = "pending"}

\* C19: the pipeline drives the trials strictly one at a time: at most one
\* request is in flight, a trial is sampled only after the outcome of the
\* trial before it has been recorded, a target starts only after the last
\* trial of the target before it, and so the rows of failures.csv are in
\* target-declaration order and, within a target, in increasing trial index.
C19_OneTrialAtATime ==
  /\ Cardinality(InFlight) <= 1
  /\ \A k \in DOMAIN trials : k < Len(trials) =>
       /\ trials[k].stage = "record"
       /\ Consumed(k)
       /\ \/ trials[k + 1].t = trials[k].t /\ trials[k + 1].i = trials[k].i + 1
          \/ /\ trials[k + 1].t > trials[k].t
             /\ trials[k].i = n - 1
             /\ trials[k + 1].i = 0
  /\ \A j1, j2 \in DOMAIN rowTrial : j1 < j2 =>
       \/ trials[rowTrial[j1]].t < trials[rowTrial[j2]].t
       \/ /\ trials[rowTrial[j1]].t = trials[rowTrial[j2]].t
          /\ trials[rowTrial[j1]].i < trials[rowTrial[j2]].i

\* The second trial of the second target is in flight after the three
\* trials before it were recorded, with a row of each target written.
C19_Witness ==
  /\ Len(trials) = 4
  /\ InFlight = {4}
  /\ Len(consumed) = 3
  /\ Len(rowTrial) = 2
  /\ trials[rowTrial[1]].t = 1
  /\ trials[rowTrial[2]].t = 2

\* ------------------------------------------------------------------ C20
\* Task k holds its file open and has a chunk of its body left to write.
IsWriting(k) == tasks[k].st = "copy" /\ tasks[k].pos < Len(tasks[k].body)

\* what the file of task k holds when k alone has written its whole body
WholeBodyOf(k) ==
  [j \in 1..Len(tasks[k].body) |-> <<tasks[k].trial, tasks[k].body[j], "full">>]

\* C20: body-capture tasks never interfere with one another: of two tasks
\* spawned for outcomes of the same method and the same path-and-query, no
\* two write to the same file at the same time, and once they are through
\* the file holds the complete body of exactly one of the responses.
C20_OneWriterPerFile ==
  /\ \A k1, k2 \in DOMAIN tasks :
       k1 # k2 /\ tasks[k1].path = tasks[k2].path =>
         ~(IsWriting(k1) /\ IsWriting(k2))
  /\ \A k1, k2 \in DOMAIN tasks :
       (/\ k1 # k2
        /\ tasks[k1].path = tasks[k2].path
        /\ tasks[k1].st = "done" /\ ~tasks[k1].lost
        /\ tasks[k2].st = "done" /\ ~tasks[k2].lost) =>
         \/ files[tasks[k1].path].data = WholeBodyOf(k1)
         \/ files[tasks[k1].path].data = WholeBodyOf(k2)

====
